---- MODULE Spec2Model ----
(***************************************************************************)
(* Dependency resolution of XNNPACK GEMM-like partitioner configs          *)
(* (backends/xnnpack/partition/config/gemm_configs.py).                    *)
(*                                                                         *)
(* The state is one exported graph (nodes with a target, an argument tuple *)
(* and a user set), one partitioner config instance (LinearConfig,         *)
(* ConvolutionConfig, AddmmConfig or MMConfig) with its cached source      *)
(* partitions, the set of q/dq nodes tagged implicit so far, and the       *)
(* outcome of the most recent call.  The actions are the three entry       *)
(* points the partitioner calls: get_deps, get_node_and_deps and           *)
(* check_constraints.                                                      *)
(*                                                                         *)
(* A Python exception is modelled as an outcome with raised = TRUE: the    *)
(* call stops where it raises and every assignment made before stays.      *)
(***************************************************************************)
EXTENDS Integers, Sequences, FiniteSets, TLC

VARIABLES g, cfg, parts, src_partitions, nComputed, implicit, last

vars == <<g, cfg, parts, src_partitions, nComputed, implicit, last>>

\* Cap on the number of get_source_partitions invocations a run may make.
MaxComputes == 2

\* bias_idx = None (MMConfig)
NoneIdx == -1

FP32 == "FP32"
STATIC_QUANT == "STATIC_QUANT"
DYNAMIC_QUANT == "DYNAMIC_QUANT"

(***************************************************************************)
(* Graph nodes.  Argument entries are node names or the non-node values    *)
(* "None" (Python None) and "lit" (a scalar or list literal).              *)
(***************************************************************************)
NodeOrder ==
  <<"x", "w", "b", "s", "z", "dqw", "cq", "gi1", "gi2", "qa", "dqa", "t",
    "op", "r", "qo", "o", "w2", "b2">>

Range(sq) == {sq[i] : i \in DOMAIN sq}

Nodes == Range(NodeOrder)

\* The member of a one-element set.  Only({e(v) : v \in {d}}) is e(d) with
\* d evaluated once: the form every local of the Python code takes here.
Only(S) == CHOOSE e \in S : TRUE

is_node(a) == a \in Nodes

\* list(S) for a Python set S of nodes: the order is unspecified in Python;
\* the model lists the members in graph order.
SetToList(S) == SelectSeq(NodeOrder, LAMBDA a : a \in S)

\* keys of a dict filled in sequence order: first occurrences, in order
Dedupe(sq) ==
  LET F[i \in 0..Len(sq)] ==
        IF i = 0 THEN <<>>
        ELSE IF sq[i] \in Range(F[i - 1]) THEN F[i - 1]
        ELSE Append(F[i - 1], sq[i])
  IN F[Len(sq)]

\* torch.fx Node.all_input_nodes: list(self._input_nodes.keys())
all_input_nodes(gr, n) == Dedupe(SelectSeq(gr.args[n], is_node))

\* utils.get_input_node: node.args[input_index]; "IndexError" when the
\* tuple is too short
get_input_node(gr, n, idx) ==
  IF idx >= 0 /\ idx + 1 <= Len(gr.args[n]) THEN gr.args[n][idx + 1]
  ELSE "IndexError"

\* node.op == "call_function"
is_call_function(gr, n) == gr.kind[n] \notin {"param", "input", "unused"}

is_param_node(gr, n) == gr.kind[n] = "param"
is_dequant(gr, n) == gr.kind[n] = "dequantize"
is_quant(gr, n) == gr.kind[n] = "quantize"
is_getitem(gr, n) == gr.kind[n] = "getitem"
is_qparam(gr, n) == gr.kind[n] = "choose_qparams"
is_dynamic_qdq(gr, n) == gr.kind[n] \in {"quantize", "dequantize"} /\ gr.dynamic[n]
is_per_tensor(gr, n) == gr.kind[n] \in {"quantize", "dequantize"} /\ gr.scheme[n] = "pt"
is_per_channel(gr, n) == gr.kind[n] \in {"quantize", "dequantize"} /\ gr.scheme[n] = "pc"
is_per_channel_group(gr, n) == gr.kind[n] \in {"quantize", "dequantize"} /\ gr.scheme[n] = "pcg"
is_affine_qdq(gr, n) == gr.kind[n] \in {"quantize", "dequantize"} /\ gr.affine[n]

\* quantize_affine(input, block_size, scale, zero_point, ...) read in the
\* layout of the decomposed op (input, scale, zero_point, ...)
extract_qdq_affine_op_args_for_decomposed_ops(gr, n) ==
  LET a == gr.args[n] IN
  IF Len(a) >= 2 THEN <<a[1]>> \o SubSeq(a, 3, Len(a)) ELSE a

(***************************************************************************)
(* Configs                                                                 *)
(***************************************************************************)
fused_acts == {"relu.default", "hardtanh.default"}

LinearConfig(enabled, force) ==
  [cls |-> "Linear", target_name |-> "linear.default",
   weight_idx |-> 1, bias_idx |-> 2, act_idx |-> 0,
   enabled_precision_types |-> enabled,
   force_non_static_weights_for_f32_linear |-> force]

ConvolutionConfig(enabled, force) ==
  [cls |-> "Conv", target_name |-> "convolution.default",
   weight_idx |-> 1, bias_idx |-> 2, act_idx |-> 0,
   enabled_precision_types |-> enabled,
   force_non_static_weights_for_f32_linear |-> force]

AddmmConfig(enabled, force) ==
  [cls |-> "Addmm", target_name |-> "addmm.default",
   weight_idx |-> 2, bias_idx |-> 0, act_idx |-> 1,
   enabled_precision_types |-> enabled,
   force_non_static_weights_for_f32_linear |-> force]

MMConfig(enabled, force) ==
  [cls |-> "MM", target_name |-> "mm.default",
   weight_idx |-> 1, bias_idx |-> NoneIdx, act_idx |-> 0,
   enabled_precision_types |-> enabled,
   force_non_static_weights_for_f32_linear |-> force]

supported_precision_types(c) ==
  CASE c.cls = "Linear" -> <<DYNAMIC_QUANT, FP32, STATIC_QUANT>>
    [] OTHER -> <<FP32, STATIC_QUANT, DYNAMIC_QUANT>>

\* Outcome of a resolver: (valid, deps), or an exception
Ok(v, d) == [valid |-> v, deps |-> d, raised |-> FALSE]
Raise == [valid |-> FALSE, deps |-> <<>>, raised |-> TRUE]

(***************************************************************************)
(* GEMMConfig                                                              *)
(***************************************************************************)
\* An attribute read (node.op, node.target, node.name) of a non-node value
\* is an AttributeError; so is a read past the end of an argument tuple.
Bad(a) == a \notin Nodes

\* _detect_precision; "raise" when an operand is not a node
_detect_precision(gr, c, n) ==
  LET weight == get_input_node(gr, n, c.weight_idx) IN
  IF Bad(weight) THEN "raise"
  ELSE IF ~is_dequant(gr, weight) THEN FP32
  ELSE LET activation == get_input_node(gr, n, c.act_idx) IN
       IF Bad(activation) THEN "raise"
       ELSE IF is_dynamic_qdq(gr, activation) THEN DYNAMIC_QUANT
       ELSE STATIC_QUANT

\* _overwrite_precision: <<overwritten, precision>>
_overwrite_precision(gr, c, n) ==
  LET precision == _detect_precision(gr, c, n) IN
  IF /\ precision \notin Range(c.enabled_precision_types)
     /\ c.enabled_precision_types = <<FP32>>
     /\ precision \in {STATIC_QUANT, DYNAMIC_QUANT}
  THEN <<TRUE, FP32>>
  ELSE <<FALSE, precision>>

\* GEMMConfig._get_weight_deps without the rejection of a per-tensor weight
\* under dynamic quantization
GEMM_get_weight_deps_NoPerTensorTest(gr, c, n, precision) ==
  IF precision = FP32 THEN
    LET weight_node == get_input_node(gr, n, c.weight_idx) IN
    IF Bad(weight_node) THEN Raise
    ELSE IF ~is_param_node(gr, weight_node) THEN Ok(FALSE, <<>>)
    ELSE Ok(TRUE, <<weight_node>>)
  ELSE
    LET dequant_node == get_input_node(gr, n, c.weight_idx) IN
    IF Bad(dequant_node) THEN Raise
    ELSE IF ~is_dequant(gr, dequant_node) THEN Ok(FALSE, <<>>)
    ELSE
      LET weight == get_input_node(gr, dequant_node, 0) IN
      IF Bad(weight) THEN Raise
      ELSE IF ~is_param_node(gr, weight) THEN Ok(FALSE, <<>>)
      ELSE IF is_per_channel(gr, dequant_node) \/ is_per_channel_group(gr, dequant_node)
        THEN LET ins == all_input_nodes(gr, dequant_node) IN
             IF Len(ins) < 2 THEN Ok(FALSE, <<>>)
             ELSE Ok(TRUE, <<dequant_node, weight>>
                            \o SubSeq(ins, 2, IF Len(ins) < 3 THEN Len(ins) ELSE 3))
      ELSE Ok(TRUE, <<dequant_node, weight>>)

\* GEMMConfig._get_weight_deps
GEMM_get_weight_deps(gr, c, n, precision) ==
  IF precision = FP32 THEN
    LET weight_node == get_input_node(gr, n, c.weight_idx) IN
    IF Bad(weight_node) THEN Raise
    ELSE IF ~is_param_node(gr, weight_node) THEN Ok(FALSE, <<>>)
    ELSE Ok(TRUE, <<weight_node>>)
  ELSE
    LET dequant_node == get_input_node(gr, n, c.weight_idx) IN
    IF Bad(dequant_node) THEN Raise
    ELSE IF ~is_dequant(gr, dequant_node) THEN Ok(FALSE, <<>>)
    ELSE
      LET weight == get_input_node(gr, dequant_node, 0) IN
      IF Bad(weight) THEN Raise
      ELSE IF ~is_param_node(gr, weight) THEN Ok(FALSE, <<>>)
      ELSE IF is_per_tensor(gr, dequant_node) /\ precision = DYNAMIC_QUANT
        THEN Ok(FALSE, <<>>)
      ELSE IF is_per_channel(gr, dequant_node) \/ is_per_channel_group(gr, dequant_node)
        THEN LET ins == all_input_nodes(gr, dequant_node) IN
             IF Len(ins) < 2 THEN Ok(FALSE, <<>>)
             ELSE Ok(TRUE, <<dequant_node, weight>>
                            \o SubSeq(ins, 2, IF Len(ins) < 3 THEN Len(ins) ELSE 3))
      ELSE Ok(TRUE, <<dequant_node, weight>>)

\* LinearConfig._get_weight_deps
Linear_get_weight_deps(gr, c, n, precision) ==
  IF precision = FP32 /\ c.force_non_static_weights_for_f32_linear
  THEN Ok(TRUE, <<>>)
  ELSE LET ow == _overwrite_precision(gr, c, n) IN
       IF ow[2] = FP32 /\ ow[1] THEN Ok(TRUE, <<>>)
       ELSE GEMM_get_weight_deps(gr, c, n, precision)

\* AddmmConfig._get_weight_deps (MMConfig._get_weight_deps repeats the test
\* and defers to it)
Addmm_get_weight_deps(gr, c, n, precision) ==
  IF precision = FP32 /\ c.force_non_static_weights_for_f32_linear
  THEN Ok(TRUE, <<>>)
  ELSE GEMM_get_weight_deps(gr, c, n, precision)

\* MMConfig._get_weight_deps
MM_get_weight_deps(gr, c, n, precision) ==
  IF precision = FP32 /\ c.force_non_static_weights_for_f32_linear
  THEN Ok(TRUE, <<>>)
  ELSE Addmm_get_weight_deps(gr, c, n, precision)

\* self._get_weight_deps: dispatch on the config's class
_get_weight_deps(gr, c, n, precision) ==
  CASE c.cls = "Linear" -> Linear_get_weight_deps(gr, c, n, precision)
    [] c.cls = "Addmm" -> Addmm_get_weight_deps(gr, c, n, precision)
    [] c.cls = "MM" -> MM_get_weight_deps(gr, c, n, precision)
    [] OTHER -> GEMM_get_weight_deps(gr, c, n, precision)

\* the single key of a one-element users dict
TheUser(S) == CHOOSE u \in S : TRUE

\* n_output.op == "call_function" and format_target_name(...) in fused_acts
is_fused_act(gr, n) == is_call_function(gr, n) /\ gr.kind[n] \in fused_acts

\* GEMMConfig._get_output_deps that leaves the fused activation out of the
\* deps of a static-quantized node
_get_output_deps_FusedNotKept(gr, c, n, precision) ==
  IF precision = STATIC_QUANT THEN
    IF Cardinality(gr.users[n]) # 1 THEN Ok(FALSE, <<>>)
    ELSE
      LET first == TheUser(gr.users[n])
          fused == is_fused_act(gr, first)
          n_output == IF fused /\ Cardinality(gr.users[first]) = 1
                      THEN TheUser(gr.users[first]) ELSE first
      IN IF ~is_quant(gr, n_output) THEN Ok(FALSE, <<>>)
         ELSE Ok(TRUE, <<n_output>>)
  ELSE IF precision = FP32 THEN
    IF Cardinality(gr.users[n]) = 1 /\ is_fused_act(gr, TheUser(gr.users[n]))
    THEN Ok(TRUE, <<TheUser(gr.users[n])>>)
    ELSE Ok(TRUE, <<>>)
  ELSE Ok(TRUE, <<>>)

\* GEMMConfig._get_output_deps
_get_output_deps(gr, c, n, precision) ==
  IF precision = STATIC_QUANT THEN
    IF Cardinality(gr.users[n]) # 1 THEN Ok(FALSE, <<>>)
    ELSE
      LET first == TheUser(gr.users[n])
          fused == is_fused_act(gr, first)
          n_output == IF fused /\ Cardinality(gr.users[first]) = 1
                      THEN TheUser(gr.users[first]) ELSE first
      IN IF ~is_quant(gr, n_output) THEN Ok(FALSE, <<>>)
         ELSE Ok(TRUE, (IF fused THEN <<first>> ELSE <<>>) \o <<n_output>>)
  ELSE IF precision = FP32 THEN
    IF Cardinality(gr.users[n]) = 1 /\ is_fused_act(gr, TheUser(gr.users[n]))
    THEN Ok(TRUE, <<TheUser(gr.users[n])>>)
    ELSE Ok(TRUE, <<>>)
  ELSE Ok(TRUE, <<>>)

\* GEMMConfig._get_bias_deps that returns the rejected bias node with the
\* failure
_get_bias_deps_KeepsRejected(gr, c, n, precision) ==
  IF precision = FP32 /\ c.force_non_static_weights_for_f32_linear
  THEN Ok(TRUE, <<>>)
  ELSE IF Len(all_input_nodes(gr, n)) > 2 /\ c.bias_idx # NoneIdx THEN
    LET bias_node == get_input_node(gr, n, c.bias_idx) IN
    IF bias_node = "IndexError" THEN Raise
    ELSE IF bias_node = "None" THEN Ok(TRUE, <<>>)
    ELSE IF Bad(bias_node) THEN Raise
    ELSE IF ~is_param_node(gr, bias_node) THEN Ok(FALSE, <<bias_node>>)
    ELSE Ok(TRUE, <<bias_node>>)
  ELSE Ok(TRUE, <<>>)

\* GEMMConfig._get_bias_deps
_get_bias_deps(gr, c, n, precision) ==
  IF precision = FP32 /\ c.force_non_static_weights_for_f32_linear
  THEN Ok(TRUE, <<>>)
  ELSE IF Len(all_input_nodes(gr, n)) > 2 /\ c.bias_idx # NoneIdx THEN
    LET bias_node == get_input_node(gr, n, c.bias_idx) IN
    IF bias_node = "IndexError" THEN Raise
    ELSE IF bias_node = "None" THEN Ok(TRUE, <<>>)
    ELSE IF Bad(bias_node) THEN Raise
    ELSE IF ~is_param_node(gr, bias_node) THEN Ok(FALSE, <<>>)
    ELSE Ok(TRUE, <<bias_node>>)
  ELSE Ok(TRUE, <<>>)

\* GEMMConfig._get_act_deps
_get_act_deps(gr, c, n, precision) ==
  IF precision = FP32 THEN Ok(TRUE, <<>>)
  ELSE
    LET dq_input == get_input_node(gr, n, c.act_idx) IN
    IF Bad(dq_input) THEN Raise
    ELSE IF ~is_dequant(gr, dq_input) THEN Ok(FALSE, <<>>)
    ELSE IF precision = STATIC_QUANT THEN Ok(TRUE, <<dq_input>>)
    ELSE
      LET q_input == get_input_node(gr, dq_input, 0) IN
      IF Bad(q_input) THEN Raise
      ELSE IF ~is_quant(gr, q_input) THEN Ok(FALSE, <<>>)
      ELSE
        LET q_input_args ==
              IF is_affine_qdq(gr, q_input)
              THEN extract_qdq_affine_op_args_for_decomposed_ops(gr, q_input)
              ELSE gr.args[q_input]
        IN
        \* is_node(q_input_args[1]) and is_node(q_input_args[2])
        IF Len(q_input_args) < 2 THEN Raise
        ELSE IF ~is_node(q_input_args[2]) THEN Ok(FALSE, <<>>)
        ELSE IF Len(q_input_args) < 3 THEN Raise
        ELSE IF ~is_node(q_input_args[3]) THEN Ok(FALSE, <<>>)
        ELSE
          LET getitem1 == q_input_args[2]
              getitem2 == q_input_args[3]
          IN
          IF ~(is_getitem(gr, getitem1) /\ is_getitem(gr, getitem2))
          THEN Ok(FALSE, <<>>)
          ELSE
            LET choose_qparam == get_input_node(gr, getitem1, 0) IN
            IF Bad(choose_qparam) THEN Raise
            ELSE IF ~is_qparam(gr, choose_qparam) THEN Ok(FALSE, <<>>)
            ELSE Ok(TRUE, <<dq_input, q_input, getitem1, getitem2, choose_qparam>>)

\* the q/dq nodes among deps, which get_deps tags with tag_as_implicit_q_dq
QdqOf(gr, deps) == {d \in Range(deps) : is_dequant(gr, d) \/ is_quant(gr, d)}

\* lines 137-145 of GEMMConfig.get_deps: the four outcomes put together
Aggregate(gr, bias, weight, act, output) ==
  IF bias.raised \/ weight.raised \/ act.raised \/ output.raised
  THEN [valid |-> FALSE, deps |-> <<>>, raised |-> TRUE, tagged |-> {}]
  ELSE [valid |-> bias.valid /\ weight.valid /\ act.valid /\ output.valid,
        deps |-> bias.deps \o weight.deps \o act.deps \o output.deps,
        raised |-> FALSE,
        tagged |-> QdqOf(gr, bias.deps \o weight.deps \o act.deps \o output.deps)]

\* GEMMConfig.get_deps: [valid, deps, raised, tagged]
GEMM_get_deps(gr, c, n) ==
  Only({
    IF precision = "raise"
    THEN [valid |-> FALSE, deps |-> <<>>, raised |-> TRUE, tagged |-> {}]
    ELSE IF precision \notin Range(supported_precision_types(c))
    THEN [valid |-> FALSE, deps |-> <<>>, raised |-> FALSE, tagged |-> {}]
    ELSE Only({
           Aggregate(gr, bias, weight, act, output) :
             bias \in {_get_bias_deps(gr, c, n, p)},
             weight \in {_get_weight_deps(gr, c, n, p)},
             act \in {_get_act_deps(gr, c, n, p)},
             output \in {_get_output_deps(gr, c, n, p)}})
    : precision \in {_detect_precision(gr, c, n)},
      p \in {_overwrite_precision(gr, c, n)[2]}})

(***************************************************************************)
(* AddmmConfig (and MMConfig, which inherits get_deps)                     *)
(***************************************************************************)
\* torch.fx: assigning node.args drops the node from the users of its old
\* input nodes and adds it to the users of the new ones
SetArgs(gr, n, new_args) ==
  LET old_in == Range(all_input_nodes(gr, n))
      new_in == {a \in Range(new_args) : is_node(a)}
  IN [gr EXCEPT !.args[n] = new_args,
                !.users = [m \in Nodes |->
                             IF m = n THEN gr.users[m]
                             ELSE IF m \in new_in THEN gr.users[m] \cup {n}
                             ELSE IF m \in old_in THEN gr.users[m] \ {n}
                             ELSE gr.users[m]]]

\* node.users = ...
SetUsers(gr, n, new_users) == [gr EXCEPT !.users[n] = new_users]

\* get_source_partitions(ep.graph, self.linear_modules): the linear source
\* partitions recorded in the graph's metadata, in iteration order
get_source_partitions(ps) == ps

\* find_partition_args (nested in get_deps_from_src_partition)
RECURSIVE find_partition_args(_, _, _)
find_partition_args(gr, src_partition, input_node) ==
  IF /\ Len(all_input_nodes(gr, input_node)) # 0
     /\ input_node \notin Range(src_partition.input_nodes)
  THEN find_partition_args(gr, src_partition, all_input_nodes(gr, input_node)[1])
  ELSE input_node

\* fake_args: one find_partition_args per argument of the node
FakeArgs(gr, src_partition, n) ==
  [i \in DOMAIN gr.args[n] |-> find_partition_args(gr, src_partition, gr.args[n][i])]

\* the "validate source partition" test of get_deps_from_src_partition:
\* TRUE when the partition is rejected
InvalidSourcePartition(c, src_partition, fake_args) ==
  \/ /\ c.bias_idx # NoneIdx /\ c.bias_idx # 0
     /\ fake_args[c.bias_idx + 1] \notin Range(src_partition.nodes)
  \/ fake_args[c.act_idx + 1] \notin Range(src_partition.input_nodes)
  \/ fake_args[c.weight_idx + 1]
       \notin Range(src_partition.nodes \o src_partition.input_nodes)
  \/ Len(src_partition.output_nodes) # 1

\* RetDeps with the two set operations exchanged
RetDeps_Swapped(c, deps, src_partition) ==
  IF c.force_non_static_weights_for_f32_linear
  THEN SetToList(Range(deps) \cup Range(src_partition.nodes))
  ELSE SetToList(Range(deps) \cap Range(src_partition.nodes))

\* RetDeps that returns the inner deps as they are
RetDeps_DepsOnly(c, deps, src_partition) == SetToList(Range(deps))

\* ret_deps: list(set(deps) & set(nodes)) or list(set(deps) | set(nodes))
RetDeps(c, deps, src_partition) ==
  IF c.force_non_static_weights_for_f32_linear
  THEN SetToList(Range(deps) \cap Range(src_partition.nodes))
  ELSE SetToList(Range(deps) \cup Range(src_partition.nodes))

\* lines 528-540 of get_deps_from_src_partition: what follows a return of
\* super().get_deps (r) on the rewritten graph g2
RestoreAndCombine(g2, c, n, src_partition, old_args, old_users, r) ==
  IF r.raised
  THEN [valid |-> FALSE, deps |-> <<>>, raised |-> TRUE, tagged |-> {},
        inner |-> TRUE, g |-> g2]
  ELSE [valid |-> r.valid, deps |-> RetDeps(c, r.deps, src_partition),
        raised |-> FALSE, tagged |-> r.tagged, inner |-> TRUE,
        g |-> SetUsers(SetArgs(g2, n, old_args), n, old_users)]

\* lines 523-526: the node takes the fake args and the users of the
\* partition's output node, and super().get_deps runs on it
RewriteAndResolve(gr, c, n, src_partition, fake_args) ==
  Only({
    Only({RestoreAndCombine(g2, c, n, src_partition, gr.args[n], gr.users[n], r)
            : r \in {GEMM_get_deps(g2, c, n)}})
    : g2 \in {Only({SetUsers(g1, n, g1.users[src_partition.output_nodes[1]])
                      : g1 \in {SetArgs(gr, n, fake_args)}})}})

\* AddmmConfig.get_deps_from_src_partition:
\* [valid, deps, raised, tagged, inner, g]; inner tells whether
\* super().get_deps was called, g is the graph the call leaves behind
get_deps_from_src_partition(gr, c, n, src_partition) ==
  IF \/ \E i \in DOMAIN gr.args[n] : Bad(gr.args[n][i])
     \/ Len(gr.args[n]) < c.act_idx + 1
     \/ Len(gr.args[n]) < c.weight_idx + 1
  THEN [valid |-> FALSE, deps |-> <<>>, raised |-> TRUE, tagged |-> {},
        inner |-> FALSE, g |-> gr]
  ELSE
    Only({
      IF InvalidSourcePartition(c, src_partition, fake_args)
      THEN [valid |-> FALSE, deps |-> <<>>, raised |-> FALSE, tagged |-> {},
            inner |-> FALSE, g |-> gr]
      ELSE RewriteAndResolve(gr, c, n, src_partition, fake_args)
      : fake_args \in {FakeArgs(gr, src_partition, n)}})

\* a guard that also takes a cache without partitions for a missing one
NeedsCompute_WhenEmpty(sp) == sp.is_none \/ sp.partitions = <<>>

\* the guard "self.src_partitions is None"
NeedsCompute(sp) == sp.is_none

\* the cache after "if self.src_partitions is None: self.src_partitions = ..."
CacheAfter(ps, sp) ==
  IF NeedsCompute(sp)
  THEN [is_none |-> FALSE, partitions |-> get_source_partitions(ps)]
  ELSE sp

\* the last partition of the cache that holds the node (0: none)
FindSrcPartition(sp, n) ==
  LET hits == {i \in DOMAIN sp.partitions : n \in Range(sp.partitions[i].nodes)} IN
  IF hits = {} THEN 0 ELSE CHOOSE i \in hits : \A j \in hits : j <= i

\* WithState with a cache that is marked as filled but keeps no partition
WithState_CacheEmptied(r, inner, gr, sp1, computed) ==
  [valid |-> r.valid, deps |-> r.deps, raised |-> r.raised,
   tagged |-> r.tagged, inner |-> inner, g |-> gr,
   sp |-> [is_none |-> FALSE, partitions |-> <<>>], computed |-> computed]

\* the result of a resolution r with the cache and the graph it leaves
WithState(r, inner, gr, sp1, computed) ==
  [valid |-> r.valid, deps |-> r.deps, raised |-> r.raised,
   tagged |-> r.tagged, inner |-> inner, g |-> gr,
   sp |-> sp1, computed |-> computed]

\* AddmmConfig.get_deps:
\* [valid, deps, raised, tagged, inner, g, sp, computed]
Addmm_get_deps(gr, c, ps, sp, n) ==
  Only({
    Only({
      IF i # 0
      THEN Only({WithState(r, r.inner, r.g, sp1, IF NeedsCompute(sp) THEN 1 ELSE 0)
                   : r \in {get_deps_from_src_partition(gr, c, n, sp1.partitions[i])}})
      ELSE Only({WithState(r, TRUE, gr, sp1, IF NeedsCompute(sp) THEN 1 ELSE 0)
                   : r \in {GEMM_get_deps(gr, c, n)}})
      : i \in {FindSrcPartition(sp1, n)}})
    : sp1 \in {CacheAfter(ps, sp)}})

\* self.get_deps(node, ep) of the config instance
get_deps(gr, c, ps, sp, n) ==
  IF c.cls \in {"Addmm", "MM"} THEN Addmm_get_deps(gr, c, ps, sp, n)
  ELSE Only({WithState(r, TRUE, gr, sp, 0) : r \in {GEMM_get_deps(gr, c, n)}})

(***************************************************************************)
(* The graphs a run may start from.  A knob record                         *)
(*   [cls, wk, ak, bk, ok, pk]                                             *)
(* picks the operator family and the shape of the weight chain, the        *)
(* activation chain, the bias, the consumers and the source partition.     *)
(***************************************************************************)
WeightKinds == {"fp_param", "fp_comp", "pt_param", "pt_comp", "pc0", "pcg1", "pc2"}
QuantWeightKinds == WeightKinds \ {"fp_param", "fp_comp"}
ActKinds ==
  {"plain", "static", "dyn", "dyn_affine", "dyn_src2", "dyn_lit", "dyn_nogi",
   "dyn_noq", "dyn_short"}
OutKinds == {"none", "q", "relu_q", "ht", "relu_2", "relu_o", "two", "gemm"}

\* Weight, activation and consumer shapes.  The activation chain behind a
\* dynamic dequantize node is read only when the weight is dequantized, and
\* the consumers are not read for a dynamically quantized node unless it is
\* taken as FP32.
ChainKnobs ==
  [wk : WeightKinds \ QuantWeightKinds, ak : {"plain", "static", "dyn"}, ok : OutKinds]
  \cup [wk : QuantWeightKinds, ak : {"plain", "static"}, ok : OutKinds]
  \cup [wk : QuantWeightKinds, ak : {"dyn"}, ok : {"none", "ht", "gemm"}]
  \cup [wk : {"pt_param", "pc2"},
        ak : ActKinds \ {"plain", "static", "dyn"}, ok : {"none", "ht", "gemm"}]

\* bias and source-partition shapes per operator family
ShapeKnobs ==
  [cls : {"Linear"}, bk : {"absent", "param", "computed", "dup"}, pk : {"none"}]
  \cup [cls : {"Conv"}, bk : {"absent", "param", "computed"}, pk : {"none"}]
  \cup [cls : {"Addmm"}, bk : {"param"},
        pk : {"none", "ok", "bias_out", "act_out", "w_out", "w_in", "two_out"}]
  \cup [cls : {"Addmm"}, bk : {"computed", "dup"}, pk : {"none", "ok"}]
  \cup [cls : {"MM"}, bk : {"absent"}, pk : {"none", "ok", "act_out", "two_out"}]

AllEnabled == <<FP32, STATIC_QUANT, DYNAMIC_QUANT>>
\* every list of distinct precisions in the order of AllEnabled
EnabledSubsets ==
  {<<>>, <<FP32>>, <<STATIC_QUANT>>, <<DYNAMIC_QUANT>>,
   <<FP32, STATIC_QUANT>>, <<FP32, DYNAMIC_QUANT>>,
   <<STATIC_QUANT, DYNAMIC_QUANT>>, AllEnabled}

\* enabled_precision_types is read only for a node detected as quantized:
\* only FP32 enabled, the detected precision not enabled, all enabled; a
\* linear node with a per-tensor weight and a dynamic activation gets every
\* list
EnabledChoices(cls, wk, ak) ==
  IF cls = "Linear" /\ wk \in {"pt_param", "pt_comp"} /\ ak = "dyn"
  THEN EnabledSubsets
  ELSE IF wk \in QuantWeightKinds
  THEN {<<FP32>>, <<FP32, STATIC_QUANT>>, AllEnabled}
  ELSE {AllEnabled}

WeightTop(k) == IF k.wk \in {"fp_param", "fp_comp"} THEN "w" ELSE "dqw"
ActTop(k) == IF k.ak = "plain" THEN "x" ELSE "dqa"
\* a linear call decomposed into permute(weight) + addmm/mm
Decomposed(k) == k.pk # "none"
WeightArg(k) == IF Decomposed(k) THEN "t" ELSE WeightTop(k)
BiasArg(k) ==
  CASE k.bk \in {"param", "computed"} -> "b"
    [] k.bk = "dup" -> ActTop(k)
    [] OTHER -> "None"

\* the argument tuple of a gemm node of the family
GemmArgs(cls, act, weight, bias) ==
  CASE cls = "Linear" -> IF bias = "None" THEN <<act, weight>> ELSE <<act, weight, bias>>
    [] cls = "Conv" -> <<act, weight, bias, "lit">>
    [] cls = "Addmm" -> <<bias, act, weight>>
    [] OTHER -> <<act, weight>>

TargetOf(cls) ==
  CASE cls = "Linear" -> "linear.default"
    [] cls = "Conv" -> "convolution.default"
    [] cls = "Addmm" -> "addmm.default"
    [] OTHER -> "mm.default"

BuildArgs(k) ==
  [n \in Nodes |->
    CASE n = "dqw" ->
           (CASE k.wk \in {"pt_param", "pt_comp", "pc0"} -> <<"w", "lit", "lit">>
              [] k.wk = "pcg1" -> <<"w", "lit", "s", "None">>
              [] k.wk = "pc2" -> <<"w", "s", "z", "lit">>
              [] OTHER -> <<>>)
      [] n = "cq" ->
           IF k.ak \in {"dyn", "dyn_affine", "dyn_src2", "dyn_nogi"}
           THEN <<"x", "lit">> ELSE <<>>
      [] n = "gi1" ->
           IF k.ak \in {"dyn", "dyn_affine", "dyn_src2"} THEN <<"cq", "lit">> ELSE <<>>
      [] n = "gi2" ->
           (CASE k.ak \in {"dyn", "dyn_affine"} -> <<"cq", "lit">>
              [] k.ak = "dyn_src2" -> <<"x", "lit">>
              [] OTHER -> <<>>)
      [] n = "qa" ->
           (CASE k.ak \in {"static", "dyn_lit"} -> <<"x", "lit", "lit">>
              [] k.ak \in {"dyn", "dyn_src2"} -> <<"x", "gi1", "gi2">>
              [] k.ak = "dyn_affine" -> <<"x", "lit", "gi1", "gi2">>
              [] k.ak = "dyn_nogi" -> <<"x", "cq", "cq">>
              [] k.ak = "dyn_short" -> <<"x">>
              [] OTHER -> <<>>)
      [] n = "dqa" ->
           (CASE k.ak = "plain" -> <<>>
              [] k.ak = "dyn_noq" -> <<"x", "lit", "lit">>
              [] k.ak \in {"dyn", "dyn_src2"} -> <<"qa", "gi1", "gi2">>
              [] k.ak = "dyn_affine" -> <<"qa", "lit", "gi1", "gi2">>
              [] OTHER -> <<"qa", "lit", "lit">>)
      [] n = "t" -> IF Decomposed(k) THEN <<WeightTop(k), "lit">> ELSE <<>>
      [] n = "op" -> GemmArgs(k.cls, ActTop(k), WeightArg(k), BiasArg(k))
      [] n = "r" ->
           IF k.ok \in {"relu_q", "ht", "relu_2", "relu_o"} THEN <<"op">> ELSE <<>>
      [] n = "qo" ->
           (CASE k.ok \in {"q", "two"} -> <<"op", "lit", "lit">>
              [] k.ok \in {"relu_q", "relu_2"} -> <<"r", "lit", "lit">>
              [] OTHER -> <<>>)
      [] n = "o" ->
           (CASE k.ok \in {"two", "gemm"} -> GemmArgs(k.cls, "op", "w2", "b2")
              [] k.ok \in {"relu_2", "relu_o"} -> GemmArgs(k.cls, "r", "w2", "b2")
              [] OTHER -> <<>>)
      [] OTHER -> <<>>]

BuildKind(k) ==
  LET a == BuildArgs(k)
      used == UNION {Range(a[n]) : n \in Nodes} \cup {n \in Nodes : a[n] # <<>>}
  IN
  [n \in Nodes |->
    IF n \notin used THEN "unused"
    ELSE CASE n = "x" -> "input"
           [] n = "w" -> IF k.wk \in {"fp_comp", "pt_comp"} THEN "input" ELSE "param"
           [] n = "b" -> IF k.bk = "computed" THEN "input" ELSE "param"
           [] n \in {"s", "z", "w2", "b2"} -> "param"
           [] n \in {"dqw", "dqa"} -> "dequantize"
           [] n \in {"qa", "qo"} -> "quantize"
           [] n = "cq" -> "choose_qparams"
           [] n \in {"gi1", "gi2"} -> "getitem"
           [] n = "t" -> "permute_copy.default"
           [] n = "r" -> IF k.ok = "ht" THEN "hardtanh.default" ELSE "relu.default"
           [] OTHER -> TargetOf(k.cls)]

BuildGraph(k) ==
  LET a == BuildArgs(k) IN
  [kind |-> BuildKind(k),
   args |-> a,
   users |-> [m \in Nodes |-> {n \in Nodes : m \in Range(a[n])}],
   scheme |-> [n \in Nodes |->
                 CASE n = "dqw" /\ k.wk \in {"pc0", "pc2"} -> "pc"
                   [] n = "dqw" /\ k.wk = "pcg1" -> "pcg"
                   [] OTHER -> "pt"],
   dynamic |-> [n \in Nodes |-> n \in {"qa", "dqa"} /\ k.ak # "static"],
   affine |-> [n \in Nodes |->
                 \/ n \in {"qa", "dqa"} /\ k.ak = "dyn_affine"
                 \/ n = "dqw" /\ k.wk = "pcg1"]]

\* the linear source partitions of the graph
BuildPartitions(k) ==
  LET interior == (IF k.bk \in {"param", "computed"} THEN <<"b">> ELSE <<>>)
                    \o <<"t", "op">>
      inputs == <<ActTop(k), WeightTop(k)>>
  IN
  CASE k.pk = "ok" ->
         <<[nodes |-> interior, input_nodes |-> inputs, output_nodes |-> <<"op">>]>>
    [] k.pk = "bias_out" ->
         <<[nodes |-> <<"t", "op">>, input_nodes |-> inputs \o <<"b">>,
            output_nodes |-> <<"op">>]>>
    [] k.pk = "act_out" ->
         <<[nodes |-> interior, input_nodes |-> <<WeightTop(k)>>,
            output_nodes |-> <<"op">>]>>
    [] k.pk = "w_out" ->
         <<[nodes |-> interior, input_nodes |-> <<ActTop(k)>>,
            output_nodes |-> <<"op">>]>>
    [] k.pk = "w_in" ->
         <<[nodes |-> interior \o <<"w">>, input_nodes |-> <<ActTop(k)>>,
            output_nodes |-> <<"op">>]>>
    [] k.pk = "two_out" ->
         <<[nodes |-> interior, input_nodes |-> inputs,
            output_nodes |-> <<"op", "t">>]>>
    [] OTHER -> <<>>

BuildConfig(cls, enabled, force) ==
  CASE cls = "Linear" -> LinearConfig(enabled, force)
    [] cls = "Conv" -> ConvolutionConfig(enabled, force)
    [] cls = "Addmm" -> AddmmConfig(enabled, force)
    [] OTHER -> MMConfig(enabled, force)

NoCall ==
  [op |-> "none", node |-> "None", valid |-> FALSE, deps |-> <<>>,
   raised |-> FALSE, inner |-> FALSE]

Init ==
  \E sk \in ShapeKnobs, ck \in ChainKnobs, force \in BOOLEAN :
  \E enabled \in EnabledChoices(sk.cls, ck.wk, ck.ak) :
    LET k == [cls |-> sk.cls, bk |-> sk.bk, pk |-> sk.pk,
              wk |-> ck.wk, ak |-> ck.ak, ok |-> ck.ok]
    IN /\ g = BuildGraph(k)
       /\ cfg = BuildConfig(sk.cls, enabled, force)
       /\ parts = BuildPartitions(k)
       /\ src_partitions = [is_none |-> TRUE, partitions |-> <<>>]
       /\ nComputed = 0
       /\ implicit = {}
       /\ last = NoCall

(***************************************************************************)
(* The entry points                                                        *)
(***************************************************************************)
\* the nodes the partitioner hands to this config: those of its target
Candidates == {n \in Nodes : g.kind[n] = cfg.target_name}

\* the state a get_deps call leaves behind
Effects(r) ==
  /\ g' = r.g
  /\ src_partitions' = r.sp
  /\ nComputed' = nComputed + r.computed
  /\ implicit' = implicit \cup r.tagged
  /\ UNCHANGED <<cfg, parts>>

\* a direct call of get_deps(node, ep)
GetDeps(n) ==
  /\ nComputed < MaxComputes
  /\ \E r \in {get_deps(g, cfg, parts, src_partitions, n)} :
     /\ Effects(r)
     /\ last' = [op |-> "get_deps", node |-> n, valid |-> r.valid,
                 deps |-> r.deps, raised |-> r.raised, inner |-> r.inner]

\* GEMMConfig.get_node_and_deps: [node] extended by the deps, whatever the
\* validity
GetNodeAndDeps(n) ==
  /\ nComputed < MaxComputes
  /\ \E r \in {get_deps(g, cfg, parts, src_partitions, n)} :
     /\ Effects(r)
     /\ last' = [op |-> "get_node_and_deps", node |-> n, valid |-> r.valid,
                 deps |-> IF r.raised THEN <<>> ELSE <<n>> \o r.deps,
                 raised |-> r.raised, inner |-> r.inner]

\* The stride, transpose, output-padding and groups arguments of a
\* convolution node and the shape of its kernel, as check_constraints reads
\* them: a plain 2D convolution and one departure from it per test.
Conv2D ==
  [stride_len |-> 2, depthwise |-> FALSE, is_transpose |-> FALSE,
   out_pad_nonzero |-> FALSE, groups_gt_1 |-> FALSE, axis |-> 0]

ConvShapes ==
  {Conv2D,
   [Conv2D EXCEPT !.stride_len = 1],
   [Conv2D EXCEPT !.stride_len = 3],
   [Conv2D EXCEPT !.depthwise = TRUE, !.groups_gt_1 = TRUE],
   [Conv2D EXCEPT !.is_transpose = TRUE, !.axis = 1],
   [Conv2D EXCEPT !.is_transpose = TRUE, !.out_pad_nonzero = TRUE],
   [Conv2D EXCEPT !.is_transpose = TRUE],
   [Conv2D EXCEPT !.is_transpose = TRUE, !.groups_gt_1 = TRUE, !.axis = 1]}

\* the shapes a node of the config's family can have
ShapesOf(c) == IF c.cls = "Conv" THEN ConvShapes ELSE {Conv2D}

\* ConvolutionConfig.check_constraints, after super().check_constraints
\* passed
ConvConstraints(gr, c, n, shape) ==
  LET kernel_node == get_input_node(gr, n, 1)
      per_channel == is_dequant(gr, kernel_node) /\ is_per_channel(gr, kernel_node)
  IN
  IF shape.stride_len > 2 THEN FALSE
  ELSE IF /\ _detect_precision(gr, c, n) = DYNAMIC_QUANT
          /\ (shape.stride_len # 2 \/ shape.depthwise)
    THEN FALSE
  ELSE IF shape.is_transpose /\ shape.out_pad_nonzero THEN FALSE
  ELSE IF /\ shape.is_transpose /\ per_channel
          /\ (shape.groups_gt_1 \/ shape.axis # 1)
    THEN FALSE
  ELSE TRUE

\* GEMMConfig.check_constraints; for a convolution node
\* ConvolutionConfig.check_constraints.  check_common_constraints either
\* rejects the node, and get_deps is not called, or accepts it.
CheckConstraints(n) ==
  /\ nComputed < MaxComputes
  /\ \/ /\ last' = [op |-> "check_constraints", node |-> n, valid |-> FALSE,
                    deps |-> <<>>, raised |-> FALSE, inner |-> FALSE]
        /\ UNCHANGED <<g, cfg, parts, src_partitions, nComputed, implicit>>
     \/ \E r \in {get_deps(g, cfg, parts, src_partitions, n)} :
        /\ Effects(r)
        /\ \E shape \in ShapesOf(cfg) :
             last' = [op |-> "check_constraints", node |-> n,
                      valid |-> /\ ~r.raised /\ r.valid
                                /\ (cfg.cls = "Conv" => ConvConstraints(g, cfg, n, shape)),
                      deps |-> <<>>, raised |-> r.raised, inner |-> r.inner]

Next ==
  \/ \E n \in Candidates : GetDeps(n)
  \/ \E n \in Candidates : GetNodeAndDeps(n)
  \/ \E n \in Candidates : CheckConstraints(n)

Spec == Init /\ [][Next]_vars

(***************************************************************************)
(* Properties                                                              *)
(***************************************************************************)
\* the node belongs to a linear source partition of the graph
InLinearPartition(n) ==
  \E i \in 1..Len(parts) : n \in Range(parts[i].nodes)

\* the config resolves through AddmmConfig.get_deps
IsAddmmFamily == cfg.cls \in {"Addmm", "MM"}

\* C1: every call of AddmmConfig.get_deps on a node of a linear source
\* partition leaves the node's args and users as they were before the call,
\* on every exit path, the inner resolution raising included.
C1_ArgsUsersRestored ==
  [][(IsAddmmFamily /\ InLinearPartition(last'.node))
       => /\ g'.args[last'.node] = g.args[last'.node]
          /\ g'.users[last'.node] = g.users[last'.node]]_vars

\* what get_node_and_deps(n) returns on the graph gr with the cache sp: the
\* exception, or the set of the returned nodes
NodeAndDeps(gr, sp, n) ==
  Only({ IF r.raised THEN [raised |-> TRUE, nodes |-> {}]
         ELSE [raised |-> FALSE, nodes |-> {n} \cup Range(r.deps)]
         : r \in {get_deps(gr, cfg, parts, sp, n)} })

\* C2: repeated calls of get_node_and_deps on a fixed graph, node and config,
\* interleaved with any other calls, return the same set of nodes: the set a
\* call has just returned is the set the next call on that node returns, and
\* no step changes what a call on any candidate node returns (a step that
\* leaves the graph and the cache as they were changes nothing NodeAndDeps
\* reads).
C2_RepeatedCallsAgree ==
  /\ [](last.op = "get_node_and_deps"
          => \E next \in {NodeAndDeps(g, src_partitions, last.node)} :
               /\ last.raised = next.raised
               /\ ~last.raised => Range(last.deps) = next.nodes)
  /\ [][<<g, src_partitions>>' # <<g, src_partitions>>
          => \A n \in Candidates :
               NodeAndDeps(g', src_partitions', n) = NodeAndDeps(g, src_partitions, n)
       ]_vars

\* a call on a node of a source partition returned a closure after the
\* cache was filled and q/dq nodes were tagged
C2_Witness ==
  /\ last.op = "get_node_and_deps" /\ last.valid
  /\ IsAddmmFamily /\ InLinearPartition(last.node)
  /\ ~src_partitions.is_none /\ implicit # {}

\* The native linear node a decomposed linear stands for: the node n with
\* the linear target, the effective (act, weight, bias) of the source
\* partition as its args and the consumers of the partition's output.
EquivalentLinear(gr, c, src_partition, n) ==
  LET fake_args == FakeArgs(gr, src_partition, n)
      g1 == SetArgs(gr, n, <<fake_args[c.act_idx + 1], fake_args[c.weight_idx + 1],
                             fake_args[c.bias_idx + 1]>>)
      g2 == SetUsers(g1, n, g1.users[src_partition.output_nodes[1]])
  IN [g2 EXCEPT !.kind[n] = "linear.default"]

\* the source partition of the last call's node, as get_deps looks it up
PartitionOfLast ==
  src_partitions.partitions[FindSrcPartition(src_partitions, last.node)]

\* the config a native linear node is resolved with: LinearConfig with the
\* enabled precisions and the flag of cfg
LinearOfCfg ==
  LinearConfig(cfg.enabled_precision_types,
               cfg.force_non_static_weights_for_f32_linear)

\* LinearConfig.get_deps on the equivalent native linear node of the last
\* call's node
LinearOfLast ==
  GEMM_get_deps(EquivalentLinear(g, cfg, PartitionOfLast, last.node),
                LinearOfCfg, last.node)

\* the last call was AddmmConfig.get_deps on an addmm node of a valid
\* linear source partition
AddmmInPartition ==
  /\ cfg.cls = "Addmm" /\ last.op = "get_deps"
  /\ InLinearPartition(last.node) /\ last.inner

\* the precision override applies to the equivalent linear node: only FP32
\* is enabled and the effective weight is quantized
Overridden ==
  _overwrite_precision(EquivalentLinear(g, cfg, PartitionOfLast, last.node),
                       LinearOfCfg, last.node)[1]

\* C3 (as stated): AddmmConfig.get_deps on the addmm node of a decomposed
\* linear returns the validity and the closure of LinearConfig.get_deps on
\* the equivalent native linear node.
C3_SameAsLinear ==
  AddmmInPartition =>
    \E lin \in {LinearOfLast} :
      /\ last.raised = lin.raised
      /\ last.valid = lin.valid
      /\ Range(last.deps) = Range(lin.deps)

\* C3 (amended): AddmmConfig.get_deps on the addmm node of a decomposed
\* linear raises when LinearConfig.get_deps on the equivalent native linear
\* node raises; otherwise it returns the linear validity, except that it
\* rejects the node when the precision override applies and the weights-
\* non-static flag is off, and it returns the linear closure united with
\* the partition's interior nodes (flag off) or intersected with them (flag
\* on).
C3_LinearModuloPartition ==
  AddmmInPartition =>
    \E lin \in {LinearOfLast}, interior \in {Range(PartitionOfLast.nodes)} :
      /\ last.raised = lin.raised
      /\ ~last.raised =>
           /\ last.valid =
                (/\ lin.valid
                 /\ ~(Overridden /\ ~cfg.force_non_static_weights_for_f32_linear))
           /\ Range(last.deps) =
                IF cfg.force_non_static_weights_for_f32_linear
                THEN Range(lin.deps) \cap interior
                ELSE Range(lin.deps) \cup interior

\* a quantized addmm node of a valid partition resolved to a valid closure
C3_Witness ==
  /\ AddmmInPartition /\ last.valid /\ implicit # {}
  /\ \E n \in Range(last.deps) : is_dequant(g, n)

\* the last call was get_deps of AddmmConfig (or MMConfig) on a node of a
\* valid linear source partition
InValidPartition ==
  /\ IsAddmmFamily /\ last.op = "get_deps"
  /\ InLinearPartition(last.node) /\ last.inner /\ ~last.raised

\* the closure get_deps returns for the last call's node with the
\* weights-non-static flag set to force
ClosureWithFlag(force) ==
  Range(get_deps(g, [cfg EXCEPT !.force_non_static_weights_for_f32_linear = force],
                 parts, src_partitions, last.node).deps)

\* C4: for a node inside a valid linear source partition, the closure
\* AddmmConfig.get_deps returns with force_non_static_weights_for_f32_linear
\* on is a subset of the closure it returns with the flag off: the closure
\* just returned under one setting is compared with the closure of the same
\* call under the other.
C4_ForceClosureSubset ==
  InValidPartition =>
    IF cfg.force_non_static_weights_for_f32_linear
    THEN Range(last.deps) \subseteq ClosureWithFlag(FALSE)
    ELSE ClosureWithFlag(TRUE) \subseteq Range(last.deps)

\* a flagged call returned a non-empty closure that is smaller than the
\* closure without the flag
C4_Witness ==
  /\ InValidPartition /\ last.valid
  /\ cfg.force_non_static_weights_for_f32_linear
  /\ last.deps # <<>>
  /\ Range(last.deps) # ClosureWithFlag(FALSE)

\* the last call was LinearConfig.get_deps on a linear node whose weight is
\* a per-tensor dequantize of a stored parameter and whose activation is a
\* dynamic-quantization pattern: a dynamic dequantize of a quantize node
\* that takes its scale and zero point from the getitems of a choose_qparams
PerTensorDynamicLinear ==
  /\ cfg.cls = "Linear" /\ last.op = "get_deps"
  /\ \E weight \in {get_input_node(g, last.node, cfg.weight_idx)},
        act \in {get_input_node(g, last.node, cfg.act_idx)} :
       /\ is_node(weight) /\ is_dequant(g, weight) /\ is_per_tensor(g, weight)
       /\ is_param_node(g, get_input_node(g, weight, 0))
       /\ is_node(act) /\ is_dequant(g, act) /\ is_dynamic_qdq(g, act)
       /\ _get_act_deps(g, cfg, last.node, DYNAMIC_QUANT).valid

\* C5 (as stated): a linear node with a per-tensor quantized weight and a
\* dynamically quantized activation is invalid whatever precision types are
\* enabled, also when only FP32 is enabled.
C5_PerTensorDynamicRejected ==
  PerTensorDynamicLinear => (~last.raised /\ ~last.valid)

\* C5 (amended): such a node is invalid for every list of enabled precision
\* types other than exactly [FP32].
C5_RejectedUnlessOnlyFP32 ==
  (PerTensorDynamicLinear /\ cfg.enabled_precision_types # <<FP32>>)
    => (~last.raised /\ ~last.valid)

\* such a node was rejected although the bias and the output are in order
\* and dynamic quantization is not among the enabled precisions
C5_Witness ==
  /\ PerTensorDynamicLinear /\ ~last.valid /\ ~last.raised
  /\ cfg.enabled_precision_types = <<FP32, STATIC_QUANT>>
  /\ _get_bias_deps(g, cfg, last.node, DYNAMIC_QUANT).valid
  /\ _get_output_deps(g, cfg, last.node, DYNAMIC_QUANT).valid

\* the consumers of a node
Consumers(n) == g.users[n]

\* the node has exactly one consumer and it is a quantize node
QuantizeFollows(n) ==
  /\ Cardinality(Consumers(n)) = 1
  /\ \A u \in Consumers(n) : is_quant(g, u)

\* the node has exactly one consumer, a fusible activation
FusedFollows(n) ==
  /\ Cardinality(Consumers(n)) = 1
  /\ \A u \in Consumers(n) : is_fused_act(g, u)

\* the closure the claim gives a static-quantized node: the fused
\* activation, if any, then the terminal quantize node
StaticOutputClosure(n) ==
  IF QuantizeFollows(n) THEN <<TheUser(Consumers(n))>>
  ELSE <<TheUser(Consumers(n)), TheUser(Consumers(TheUser(Consumers(n))))>>

\* the output of a static-quantized node is in order
StaticOutputOk(n) ==
  \/ QuantizeFollows(n)
  \/ FusedFollows(n) /\ QuantizeFollows(TheUser(Consumers(n)))

\* the last call resolved its node as STATIC_QUANT
ResolvedStatic ==
  /\ last.op = "get_deps" /\ ~last.raised
  /\ cfg.cls \in {"Linear", "Conv"}
  /\ _detect_precision(g, cfg, last.node) = STATIC_QUANT
  /\ _overwrite_precision(g, cfg, last.node)[2] = STATIC_QUANT

Returned == last.op \in {"get_deps", "get_node_and_deps"} /\ ~last.raised

\* the deps get_deps returned in the last call
LastDeps ==
  IF last.op = "get_node_and_deps" THEN Tail(last.deps) ELSE last.deps

\* the results of the four resolvers on node n under precision p, in the
\* order get_deps chains them
Resolvers(n, p) ==
  <<_get_bias_deps(g, cfg, n, p), _get_weight_deps(g, cfg, n, p),
    _get_act_deps(g, cfg, n, p), _get_output_deps(g, cfg, n, p)>>

\* C7 (as stated): whenever get_deps returns validity false the node list it
\* returns is empty, so get_node_and_deps on a rejected node returns only
\* the node.
C7_InvalidMeansEmpty ==
  (Returned /\ ~last.valid) => LastDeps = <<>>

\* C7 (amended): each of the four resolvers returns an empty list when it
\* fails, and a rejected source partition yields (False, []); get_deps
\* itself returns the conjunction of the four validities with the
\* concatenation of the four lists, whatever the validity.
C7_FailuresAreLocal ==
  /\ \A n \in Candidates : \A p \in {FP32, STATIC_QUANT, DYNAMIC_QUANT} :
       \E rs \in {Resolvers(n, p)} :
         \A i \in 1..4 : (~rs[i].raised /\ ~rs[i].valid) => rs[i].deps = <<>>
  /\ (Returned /\ IsAddmmFamily /\ InLinearPartition(last.node) /\ ~last.inner)
       => (~last.valid /\ LastDeps = <<>>)
  /\ (Returned /\ ~IsAddmmFamily)
       => \E rs \in {Resolvers(last.node, _overwrite_precision(g, cfg, last.node)[2])} :
            /\ last.valid = \A i \in 1..4 : rs[i].valid
            /\ LastDeps = rs[1].deps \o rs[2].deps \o rs[3].deps \o rs[4].deps

\* a call returned validity false with a list that is not empty
C7_Witness ==
  /\ Returned /\ ~last.valid /\ LastDeps # <<>>
  /\ \E p \in {STATIC_QUANT, DYNAMIC_QUANT} :
       ~_get_weight_deps(g, cfg, last.node, p).valid

\* the last call ran GEMMConfig.get_deps on the node as it stands in the
\* graph, with the weights-non-static flag off and no precision override
PlainResolution ==
  /\ Returned
  /\ ~(IsAddmmFamily /\ InLinearPartition(last.node))
  /\ ~cfg.force_non_static_weights_for_f32_linear
  /\ ~_overwrite_precision(g, cfg, last.node)[1]

\* the weight of the last call's node is not a stored parameter: the weight
\* operand itself (full precision) or the first operand of the weight's
\* dequantize node (quantized variants)
WeightNotParam ==
  \E weight \in {get_input_node(g, last.node, cfg.weight_idx)} :
    IF is_dequant(g, weight)
    THEN ~is_param_node(g, get_input_node(g, weight, 0))
    ELSE ~is_param_node(g, weight)

\* a bias operand is present at the config's bias index and is not a stored
\* parameter
BiasNotParam ==
  /\ cfg.bias_idx # NoneIdx
  /\ Len(g.args[last.node]) > cfg.bias_idx
  /\ is_node(g.args[last.node][cfg.bias_idx + 1])
  /\ ~is_param_node(g, g.args[last.node][cfg.bias_idx + 1])

\* C8: with the weights-non-static flag off and no precision override,
\* get_deps returns validity false whenever the weight operand, the first
\* operand of the weight's dequantize node, or a bias operand present at the
\* bias index is not a stored parameter.
C8_NonParamRejected ==
  (PlainResolution /\ (WeightNotParam \/ BiasNotParam)) => ~last.valid

\* the fake arguments of the last call's node in its source partition
FakeArgsOfLast == FakeArgs(g, PartitionOfLast, last.node)

\* the four conditions on the fake arguments
BiasInterior ==
  cfg.bias_idx # NoneIdx
    => FakeArgsOfLast[cfg.bias_idx + 1] \in Range(PartitionOfLast.nodes)
ActIsInput ==
  FakeArgsOfLast[cfg.act_idx + 1] \in Range(PartitionOfLast.input_nodes)
WeightInPartition ==
  FakeArgsOfLast[cfg.weight_idx + 1]
    \in Range(PartitionOfLast.nodes) \cup Range(PartitionOfLast.input_nodes)
SingleOutput == Len(PartitionOfLast.output_nodes) = 1

\* the last call was get_deps of AddmmConfig (or MMConfig) on a node of a
\* linear source partition
PartitionCall ==
  /\ IsAddmmFamily /\ last.op = "get_deps"
  /\ InLinearPartition(last.node)

\* C9: get_deps_from_src_partition runs the inner resolution only if the
\* fake bias is in the partition's nodes, the fake activation in its
\* input_nodes, the fake weight in its nodes or input_nodes and the
\* partition has one output node; if one of the four fails the result is
\* (False, []) and the inner resolution is not run.
C9_FourConditions ==
  PartitionCall =>
    /\ last.inner =>
         (BiasInterior /\ ActIsInput /\ WeightInPartition /\ SingleOutput)
    /\ ~(BiasInterior /\ ActIsInput /\ WeightInPartition /\ SingleOutput)
         => (~last.inner /\ ~last.raised /\ ~last.valid /\ last.deps = <<>>)

\* the last call returned valid for a node resolved as quantized whose
\* weight operand is a per-channel or per-channel-group dequantize node
PerChannelCall ==
  /\ Returned /\ last.valid
  /\ ~(IsAddmmFamily /\ InLinearPartition(last.node))
  /\ _overwrite_precision(g, cfg, last.node)[2] # FP32
  /\ \E dq \in {get_input_node(g, last.node, cfg.weight_idx)} :
       /\ is_node(dq) /\ is_dequant(g, dq)
       /\ is_per_channel(g, dq) \/ is_per_channel_group(g, dq)

\* C10: for a per-channel or per-channel-group quantized weight the weight
\* resolver of a valid resolution is valid only if the dequantize node has a scale and a
\* zero-point input node besides the weight, and a valid weight closure is
\* exactly [dequantize node, weight, scale, zero point].
C10_ScaleAndZeroPoint ==
  PerChannelCall =>
    \E dq \in {get_input_node(g, last.node, cfg.weight_idx)} :
    \E r \in {_get_weight_deps(g, cfg, last.node,
                               _overwrite_precision(g, cfg, last.node)[2])} :
      r.valid =>
        /\ Len(all_input_nodes(g, dq)) >= 3
        /\ r.deps = <<dq>> \o SubSeq(all_input_nodes(g, dq), 1, 3)
        /\ Cardinality(Range(r.deps)) = 4

\* the last call returned after resolving its node, as it stands in the
\* graph, as DYNAMIC_QUANT
DynamicCall ==
  /\ Returned
  /\ ~(IsAddmmFamily /\ InLinearPartition(last.node))
  /\ _overwrite_precision(g, cfg, last.node)[2] = DYNAMIC_QUANT

\* operands 1 and 2 of a quantize node, read through the affine layout when
\* the node uses it
ScaleAndZeroPointOf(q) ==
  LET a == IF is_affine_qdq(g, q)
           THEN extract_qdq_affine_op_args_for_decomposed_ops(g, q)
           ELSE g.args[q]
  IN IF Len(a) >= 3 THEN <<a[2], a[3]>> ELSE <<>>

\* the node is a getitem whose source operand is a choose_qparams node
AccessorOfChooseQparams(a) ==
  /\ is_node(a) /\ is_getitem(g, a)
  /\ \E src \in {get_input_node(g, a, 0)} : is_node(src) /\ is_qparam(g, src)

\* the activation chain of node n is well formed: dequantize, quantize, two
\* getitem operands, each taken from a choose_qparams node
WellFormedDynamicChain(n) ==
  \E dq \in {get_input_node(g, n, cfg.act_idx)} :
    /\ is_node(dq) /\ is_dequant(g, dq)
    /\ \E q \in {get_input_node(g, dq, 0)} :
         /\ is_node(q) /\ is_quant(g, q)
         /\ \E sz \in {ScaleAndZeroPointOf(q)} :
              /\ Len(sz) = 2
              /\ AccessorOfChooseQparams(sz[1])
              /\ AccessorOfChooseQparams(sz[2])

\* C11: for DYNAMIC_QUANT the activation resolver returns valid only if the
\* activation operand is a dequantize node, its source a quantize node, the
\* quantize node's operands 1 and 2 getitem nodes and the source of each of
\* the two getitems a choose_qparams node; otherwise it returns invalid with
\* an empty closure.
C11_DynamicChainWellFormed ==
  DynamicCall =>
    \E r \in {_get_act_deps(g, cfg, last.node, DYNAMIC_QUANT)} :
      /\ r.valid => WellFormedDynamicChain(last.node)
      /\ ~WellFormedDynamicChain(last.node) => (~r.valid /\ r.deps = <<>>)

\* C12: on one AddmmConfig or MMConfig instance get_source_partitions is
\* invoked and src_partitions written at most once, by the first get_deps
\* call, also when no partition is found: after a call the cache holds the
\* partitions computed by the one invocation, and once it is written no
\* step writes it or invokes get_source_partitions again.
C12_CacheWrittenOnce ==
  /\ [](/\ nComputed <= 1
        /\ src_partitions.is_none <=> nComputed = 0
        /\ ~src_partitions.is_none
             => src_partitions.partitions = get_source_partitions(parts)
        /\ (IsAddmmFamily /\ last.op \in {"get_deps", "get_node_and_deps"})
             => ~src_partitions.is_none)
  /\ [][~src_partitions.is_none => UNCHANGED <<src_partitions, nComputed>>]_vars

\* a cache that was computed once and holds no partition, after a call
C12_Witness ==
  /\ IsAddmmFamily /\ last.op = "get_deps"
  /\ ~src_partitions.is_none /\ src_partitions.partitions = <<>>
  /\ nComputed = 1

====
